---- MODULE Spec2Model ----
(***************************************************************************)
(* A model of scrapligo's transport package (src/transport/base.go): the   *)
(* timeout guard transportTimeout, the System (pty subprocess) transport,  *)
(* and the ssh argument vector built by System.buildOpenCmd.               *)
(*                                                                         *)
(* One System instance is modelled together with the operating-system      *)
(* state it acts on (the spawned processes/ptys and their byte streams),   *)
(* the goroutines started by transportTimeout, and a clock.  Durations are *)
(* counted in milliseconds.                                                *)
(***************************************************************************)
EXTENDS Integers, Sequences, FiniteSets, TLC

\* ---------------------------------------------------------------- bounds
\* How many processes are spawned (Open, OpenNetconf) and goroutines started
\* (Read, ReadN) in one run, taken together.
MaxOps == 3

\* ------------------------------------------------------- program constants
ReadSize == 65535
Second   == 1000  \* time.Second, in the model's unit (milliseconds)

ErrTransportFailure == "error reading from transport, cannot continue"
ErrTransportTimeout == "transport operation timed out"
NoErr               == "nil"

\* Errors of the os / pty layer, as the raw values the calls below return.
ErrInvalid == "os.ErrInvalid"      \* method called on a nil *os.File
ErrClosed  == "os.ErrClosed"       \* read of a file that was closed
ErrEOF     == "io.EOF"
ErrIO      == "EIO"
ErrSpawn   == "exec: spawn failed"

ErrKeyVerificationFailed == "ssh key verification failed"

\* A duration that never elapses: a blocking read that never returns.
Never == -1
\* The duration of a read that has not been entered yet.
Unknown == -2

\* ------------------------------------------------------------ input sets
Hosts          == {"10.0.0.1"}
Ports          == {22, 830}
Usernames      == {"", "admin"}
PrivateKeys    == {"", "/id_rsa"}
ConfigFiles    == {"", "/ssh_config"}
KnownHostFiles == {"", "/etc/hosts2"}
ExecCmds       == {"", "docker"}
SocketTimeouts    == {5 * Second}
TransportTimeouts == {0 - 1500, 0, 1500, 30 * Second}
\* The idle timeouts Read is run with, how long a blocking stream read takes.
ReadTimeouts == {0 - 1500, 0, 1500}
OpTimes      == {0, 1500, 3000}
\* The values the shared timeouts are updated to.
UpdSocketTimeouts    == {10 * Second}
UpdTransportTimeouts == {3000}
\* The byte counts ReadN is called with, and the bytes every spawned process
\* writes to its pty before it ends the stream.
ReadNSizes   == {2}
StreamBytes  == <<104>>

\* ------------------------------------------------------------- the state
VARIABLES
  BaseTransportArgs,    \* Host, Port, AuthUsername, *TimeoutSocket, *TimeoutTransport
  SystemTransportArgs,  \* AuthPrivateKey, AuthStrictKey, SSHConfigFile, SSHKnownHostsFile
  fileObj,              \* System.fileObj: 0 is nil, i > 0 is the pty of spawn i
  OpenCmd,              \* System.OpenCmd: <<>> is the nil slice
  ExecCmd,              \* System.ExecCmd
  nSpawns,              \* how many times a process was spawned (exec.Command + pty.Start)
  lastSpawn,            \* the latest spawn: prog, argv, sized (StartWithSize), ok, and
                        \* whether its ssh turns the remote host key down (rejected)
  openPtys,             \* the spawned ptys that have not been closed
  stream,               \* stream[i]: bytes already consumed from pty i
  pc,                   \* the caller: "idle", or its place inside transportTimeout
  call,                 \* the Read/ReadN in progress: op, n, transportTimeout's timeout,
                        \* and how long its worker's stream read takes (dur)
  timer,                \* the time.Timer of the call in progress
  workers,              \* workers[i]: the goroutine and channel c of the i-th call
  delayed,              \* time has passed while a step of the call in progress was runnable
  ret                   \* what the latest operation returned, once it has returned

vars == <<BaseTransportArgs, SystemTransportArgs, fileObj, OpenCmd, ExecCmd, nSpawns,
          lastSpawn, openPtys, stream, pc, call, timer, workers, delayed, ret>>

sysVars  == <<fileObj, OpenCmd, ExecCmd>>
osVars   == <<nSpawns, lastSpawn, openPtys, stream>>
argVars  == <<BaseTransportArgs, SystemTransportArgs>>
callVars == <<pc, call, timer, workers, delayed>>

\* ------------------------------------------------------------ byte slices
\* A []byte of length len whose first Len(head) bytes are head and whose other
\* bytes are zero; isnil tells the nil slice from an empty one.
NilBytes == [isnil |-> TRUE, len |-> 0, head |-> <<>>]

MakeBytes(n) == [isnil |-> FALSE, len |-> n, head |-> <<>>]

\* f.Read(b) delivering k bytes, the stream's bytes pos+1 .. pos+k, into b[0:k].
FillBytes(b, pos, k) == [b EXCEPT !.head = [j \in 1..k |-> StreamBytes[pos + j]]]

ByteAt(b, i) == IF i <= Len(b.head) THEN b.head[i] ELSE 0

\* ------------------------------------------------------- buildOpenCmd
\* int(d.Seconds()): the conversion to int truncates toward zero.
WholeSeconds(d) == IF d >= 0 THEN d \div Second ELSE 0 - ((0 - d) \div Second)

\* fmt.Sprintf("%d", n)
Itoa(n) == ToString(n)

\* hostKeyArgs with the test of AuthStrictKey inverted.
hostKeyArgsInverted(s) ==
  IF s.AuthStrictKey
    THEN <<"-o", "StrictHostKeyChecking=no", "-o", "UserKnownHostsFile=/dev/null">>
    ELSE <<"-o", "StrictHostKeyChecking=yes">>
         \o (IF s.SSHKnownHostsFile # ""
               THEN <<"-o", "UserKnownHostsFile=" \o s.SSHKnownHostsFile>>
               ELSE <<>>)

hostKeyArgs(s) ==
  IF ~s.AuthStrictKey
    THEN <<"-o", "StrictHostKeyChecking=no", "-o", "UserKnownHostsFile=/dev/null">>
    ELSE <<"-o", "StrictHostKeyChecking=yes">>
         \o (IF s.SSHKnownHostsFile # ""
               THEN <<"-o", "UserKnownHostsFile=" \o s.SSHKnownHostsFile>>
               ELSE <<>>)

\* buildOpenCmd with the username appended before the private key.
buildOpenCmdUserFirst(cmd, b, s) ==
  cmd
  \o <<b.Host, "-p", Itoa(b.Port),
       "-o", "ConnectTimeout=" \o Itoa(WholeSeconds(b.TimeoutSocket)),
       "-o", "ServerAliveInterval=" \o Itoa(WholeSeconds(b.TimeoutTransport))>>
  \o (IF b.AuthUsername # "" THEN <<"-l", b.AuthUsername>> ELSE <<>>)
  \o (IF s.AuthPrivateKey # "" THEN <<"-i", s.AuthPrivateKey>> ELSE <<>>)
  \o hostKeyArgs(s)
  \o (IF s.SSHConfigFile # "" THEN <<"-F", s.SSHConfigFile>> ELSE <<"-F", "/dev/null">>)

buildOpenCmd(cmd, b, s) ==
  cmd
  \o <<b.Host, "-p", Itoa(b.Port),
       "-o", "ConnectTimeout=" \o Itoa(WholeSeconds(b.TimeoutSocket)),
       "-o", "ServerAliveInterval=" \o Itoa(WholeSeconds(b.TimeoutTransport))>>
  \o (IF s.AuthPrivateKey # "" THEN <<"-i", s.AuthPrivateKey>> ELSE <<>>)
  \o (IF b.AuthUsername # "" THEN <<"-l", b.AuthUsername>> ELSE <<>>)
  \o hostKeyArgs(s)
  \o (IF s.SSHConfigFile # "" THEN <<"-F", s.SSHConfigFile>> ELSE <<"-F", "/dev/null">>)

netconfArgs == <<"-tt", "-s", "netconf">>

\* ------------------------------------------------------------------ Init
\* What a goroutine of transportTimeout had done when its call returned.
NoSnap == [st |-> "none", n |-> 0, dur |-> Unknown, raw |-> NoErr,
           result |-> NilBytes, error |-> NoErr]

\* The return values of an operation (result, error, alive); for Open,
\* OpenNetconf, Close and Write the error the os / pty layer gave it (raw); for a
\* Read or ReadN the timeout it ran with, the state its worker was in at the
\* moment the select statement chose, and whether time had passed with a step
\* runnable.
NoRet == [op |-> "none", result |-> NilBytes, error |-> NoErr, raw |-> NoErr,
          alive |-> FALSE, timeout |-> 0, worker |-> NoSnap, delayed |-> FALSE]

NoTimer == [left |-> 0, fired |-> FALSE]

NoCall == [op |-> "none", n |-> 0, timeout |-> 0, dur |-> Unknown]

NoSpawn == [prog |-> "", argv |-> <<>>, sized |-> FALSE, ok |-> FALSE,
            rejected |-> FALSE]

\* The state of a System value right after construction, and of its surroundings.
Fresh ==
  /\ fileObj = 0
  /\ OpenCmd = <<>>
  /\ nSpawns = 0
  /\ lastSpawn = NoSpawn
  /\ openPtys = {}
  /\ stream = <<>>
  /\ pc = "idle"
  /\ call = NoCall
  /\ timer = NoTimer
  /\ workers = <<>>
  /\ delayed = FALSE
  /\ ret = NoRet

\* Every combination of the parameters buildOpenCmd reads.
InitCmd ==
  /\ BaseTransportArgs \in [Host : Hosts, Port : Ports, AuthUsername : Usernames,
                            TimeoutSocket : SocketTimeouts,
                            TimeoutTransport : TransportTimeouts]
  /\ SystemTransportArgs \in [AuthPrivateKey : PrivateKeys, AuthStrictKey : BOOLEAN,
                              SSHConfigFile : ConfigFiles,
                              SSHKnownHostsFile : KnownHostFiles]
  /\ ExecCmd \in ExecCmds
  /\ Fresh

\* One set of ssh parameters, every idle timeout.
Init ==
  /\ BaseTransportArgs \in [Host : Hosts, Port : {22}, AuthUsername : {"admin"},
                            TimeoutSocket : SocketTimeouts,
                            TimeoutTransport : ReadTimeouts]
  /\ SystemTransportArgs \in [AuthPrivateKey : {""}, AuthStrictKey : {FALSE},
                              SSHConfigFile : {""}, SSHKnownHostsFile : {""}]
  /\ ExecCmd = ""
  /\ Fresh

\* ------------------------------------------------- Open, OpenNetconf, Close
\* The argument vector asks ssh to check the remote host key.
strictChecking(argv) == \E i \in 1..Len(argv) : argv[i] = "StrictHostKeyChecking=yes"

\* What the host-key check of the process just started will come to: a started
\* ssh that was asked to check may turn the key down, after the spawn returned.
hostKeyVerdicts(prog, argv, ok) ==
  IF ok /\ prog = "ssh" /\ strictChecking(argv) THEN BOOLEAN ELSE {FALSE}

\* exec.Command(prog, argv...) followed by pty.Start / pty.StartWithSize; ok is
\* whether the spawn succeeded.  The pty of the n-th spawn is named n.
Spawn(prog, argv, sized, ok, rejected) ==
  /\ nSpawns' = nSpawns + 1
  /\ lastSpawn' = [prog |-> prog, argv |-> argv, sized |-> sized, ok |-> ok,
                   rejected |-> rejected]
  /\ stream' = Append(stream, 0)
  /\ openPtys' = IF ok THEN openPtys \cup {nSpawns + 1} ELSE openPtys

\* The errors pty.Start / pty.StartWithSize can return.
spawnErrors == {NoErr, ErrSpawn}

\* openedHandle with a failed spawn clearing the handle.
openedHandleDropped(f, new, err) == IF err # NoErr THEN 0 ELSE new

\* The handle Open and OpenNetconf leave in t.fileObj, given the handle before,
\* the pty of the spawn and the spawn's error.
openedHandle(f, new, err) == IF err # NoErr THEN f ELSE new

\* The identifier OpenNetconf passes to exec.Command.
netconfProgram(execCmd) == "ssh"

Open ==
  /\ pc = "idle"
  /\ nSpawns + Len(workers) < MaxOps
  /\ \E err \in spawnErrors :
       LET cmd  == IF OpenCmd = <<>>
                     THEN buildOpenCmd(OpenCmd, BaseTransportArgs, SystemTransportArgs)
                     ELSE OpenCmd
           prog == IF ExecCmd = "" THEN "ssh" ELSE ExecCmd
           ok   == err = NoErr
       IN /\ OpenCmd' = cmd
          /\ ExecCmd' = prog
          /\ \E rejected \in hostKeyVerdicts(prog, cmd, ok) :
               Spawn(prog, cmd, TRUE, ok, rejected)
          /\ fileObj' = openedHandle(fileObj, nSpawns + 1, err)
          /\ ret' = [NoRet EXCEPT !.op = "Open", !.error = err, !.raw = err]
  /\ UNCHANGED <<argVars, callVars>>

OpenNetconf ==
  /\ pc = "idle"
  /\ nSpawns + Len(workers) < MaxOps
  /\ \E err \in spawnErrors :
       LET cmd  == buildOpenCmd(OpenCmd, BaseTransportArgs, SystemTransportArgs)
                     \o netconfArgs
           prog == netconfProgram(ExecCmd)
           ok   == err = NoErr
       IN /\ OpenCmd' = cmd
          /\ \E rejected \in hostKeyVerdicts(prog, cmd, ok) :
               Spawn(prog, cmd, FALSE, ok, rejected)
          /\ fileObj' = openedHandle(fileObj, nSpawns + 1, err)
          /\ ret' = [NoRet EXCEPT !.op = "OpenNetconf", !.error = err, !.raw = err]
  /\ UNCHANGED <<ExecCmd, argVars, callVars>>

\* The errors t.fileObj.Close() can return for the handle f.
closeErrors(f) == IF f = 0 THEN {ErrInvalid} ELSE {NoErr, ErrIO}

\* closedHandle keeping the handle when the close failed.
closedHandleKeptOnError(f, err) == IF err = NoErr THEN 0 ELSE f

\* The handle Close leaves in t.fileObj, given the handle and the close error.
closedHandle(f, err) == 0

Close ==
  /\ pc = "idle"
  /\ \E err \in closeErrors(fileObj) :
       /\ fileObj' = closedHandle(fileObj, err)
       /\ ret' = [NoRet EXCEPT !.op = "Close", !.error = err, !.raw = err]
  /\ openPtys' = openPtys \ {fileObj}
  /\ UNCHANGED <<OpenCmd, ExecCmd, nSpawns, lastSpawn, stream, argVars, callVars>>

\* ------------------------------------------------------ Write, IsAlive
\* writeErrors with the write to a nil handle accepted.
writeErrorsNilOk(f) == {NoErr, ErrIO}

\* The errors t.fileObj.Write(channelInput) can return for the handle f.
writeErrors(f) == IF f = 0 THEN {ErrInvalid} ELSE {NoErr, ErrIO}

\* What Write returns, given the error of t.fileObj.Write.
writeResult(err) == IF err # NoErr THEN err ELSE NoErr

Write ==
  /\ pc = "idle"
  /\ \E err \in writeErrors(fileObj) :
       ret' = [NoRet EXCEPT !.op = "Write", !.error = writeResult(err), !.raw = err]
  /\ UNCHANGED <<sysVars, osVars, argVars, callVars>>

isAlive(f) == f # 0

IsAlive ==
  /\ pc = "idle"
  /\ ret' = [NoRet EXCEPT !.op = "IsAlive", !.alive = isAlive(fileObj)]
  /\ UNCHANGED <<sysVars, osVars, argVars, callVars>>

\* --------------------------------------------------- transportTimeout
\* The goroutine of the i-th call and the channel c it sends to.
\*   st: "spawned" (go statement done, f not yet running), "reading" (inside
\*       t.fileObj.Read), "send" (f returned r), "done" (r sent, c closed).
\*   left is how long the read still blocks.
NewWorker(n) ==
  [st |-> "spawned", n |-> n, fd |-> 0, left |-> 0,
   raw |-> NoErr, res |-> [result |-> NilBytes, error |-> NoErr],
   ch |-> <<>>, closed |-> FALSE]

\* A goroutine that has returned and whose channel no one refers to any more.
Gone ==
  [st |-> "gone", n |-> 0, fd |-> 0, left |-> 0,
   raw |-> NoErr, res |-> [result |-> NilBytes, error |-> NoErr],
   ch |-> <<>>, closed |-> TRUE]

\* cur with one channel c made for the first call and used by every call.
curFirst == IF workers = <<>> THEN 0 ELSE 1

cur == Len(workers)   \* the worker of the call in progress, when pc # "idle"

\* The call that started worker i has returned.
Returned(i) == i < cur \/ pc = "idle"

\* The worker the returning caller leaves behind.  One that has sent its result
\* is over, and c unreachable.  One still inside its stream read is timed by no
\* one any more: the read returns at any later moment, or never.
Abandon(w) ==
  IF w.st = "done" THEN Gone
  ELSE IF w.st = "reading" /\ w.left # Never THEN [w EXCEPT !.left = 0]
  ELSE w

Snapshot(w) ==
  [st |-> w.st, n |-> w.n, dur |-> call.dur, raw |-> w.raw,
   result |-> w.res.result, error |-> w.res.error]

\* Read and ReadN up to the go statement: the timeout argument is evaluated
\* (*t.BaseTransportArgs.TimeoutTransport), c is made, the goroutine is started.
ReadCall(op, n) ==
  /\ pc = "idle"
  /\ nSpawns + Len(workers) < MaxOps
  /\ call' = [op |-> op, n |-> n, timeout |-> BaseTransportArgs.TimeoutTransport,
              dur |-> Unknown]
  /\ workers' = Append(workers, NewWorker(n))
  /\ timer' = NoTimer
  /\ delayed' = FALSE
  /\ pc' = "timer"
  /\ ret' = NoRet
  /\ UNCHANGED <<sysVars, osVars, argVars>>

Read == ReadCall("Read", ReadSize)

ReadN == \E n \in ReadNSizes : ReadCall("ReadN", n)

\* timer := time.NewTimer(timeout)
NewTimer ==
  /\ pc = "timer"
  /\ timer' = [left |-> IF call.timeout > 0 THEN call.timeout ELSE 0, fired |-> FALSE]
  /\ pc' = "select"
  /\ UNCHANGED <<sysVars, osVars, argVars, call, workers, delayed, ret>>

TimerArmed == pc = "select" /\ ~timer.fired

TimerDue == TimerArmed /\ timer.left = 0

\* The runtime sends on timer.C once the timer's duration has elapsed.
TimerFire ==
  /\ TimerDue
  /\ timer' = [timer EXCEPT !.fired = TRUE]
  /\ UNCHANGED <<sysVars, osVars, argVars, pc, call, workers, delayed, ret>>

\* selectCases with the timeout case handing on a payload the worker has sent.
selectCasesMixed(ch, fired) ==
  (IF ch # <<>> THEN {[result |-> ch[1].result, error |-> ch[1].error]} ELSE {})
  \cup
  (IF fired
     THEN {[result |-> IF ch # <<>> THEN ch[1].result ELSE MakeBytes(0),
            error |-> ErrTransportTimeout]}
     ELSE {})

\* selectCases without the timer case: the caller waits for the worker alone.
selectCasesNoTimer(ch, fired) ==
  IF ch # <<>> THEN {[result |-> ch[1].result, error |-> ch[1].error]} ELSE {}

\* The outcomes of the select statement, given the content of c and whether
\* timer.C holds a value: every ready case may be the one chosen.
selectCases(ch, fired) ==
  (IF ch # <<>> THEN {[result |-> ch[1].result, error |-> ch[1].error]} ELSE {})
  \cup
  (IF fired THEN {[result |-> MakeBytes(0), error |-> ErrTransportTimeout]} ELSE {})

\* The select statement, and the return of Read/ReadN, which hands on b and err
\* as transportTimeout returned them.
Select ==
  /\ pc = "select"
  /\ \E out \in selectCases(workers[cur].ch, timer.fired) :
       /\ ret' = [NoRet EXCEPT !.op = call.op, !.result = out.result,
                               !.error = out.error, !.timeout = call.timeout,
                               !.worker = Snapshot(workers[cur]),
                               !.delayed = delayed]
       /\ workers' = [workers EXCEPT ![cur] = Abandon(@)]
  /\ pc' = "idle"
  /\ timer' = NoTimer
  /\ call' = NoCall
  /\ delayed' = FALSE
  /\ UNCHANGED <<sysVars, osVars, argVars>>

\* ------------------------------------------------------------ System.read
\* The goroutine starts running f: b is made and t.fileObj.Read(b) is entered,
\* on the handle t.fileObj holds at this moment.  dur is how long the read blocks.
\* (When the caller has returned already, on a timeout, this read of t.fileObj
\* races with the caller's next Open or Close: it sees the handle of before or
\* of after, as do the steps taken here before or after that operation.)
\* How long f.Read can block: not at all on a nil handle, which is refused at
\* once; for an unknown time, or for ever, on a pty.  (For a worker whose caller
\* has returned only "at some time" and "for ever" differ.)
readTimes(f, abandoned) ==
  IF f = 0 THEN {0}
  ELSE IF abandoned THEN {0, Never}
  ELSE OpTimes \cup {Never}

WorkerStart(i) ==
  /\ workers[i].st = "spawned"
  /\ \E dur \in readTimes(fileObj, Returned(i)) :
       /\ workers' = [workers EXCEPT ![i].st = "reading", ![i].fd = fileObj,
                                     ![i].left = dur]
       /\ call' = IF Returned(i) THEN call ELSE [call EXCEPT !.dur = dur]
  /\ UNCHANGED <<sysVars, osVars, argVars, pc, timer, delayed, ret>>

Blocked(i) == workers[i].st = "reading" /\ workers[i].left # Never

ReadDue(i) == Blocked(i) /\ workers[i].left = 0

\* What f.Read(b) can return for handle fd and len(b) = n: <<k, err>>.  The
\* remote end may end the stream at any moment.
readOutcomes(fd, n) ==
  IF fd = 0 THEN {<<0, ErrInvalid>>}
  ELSE IF fd \notin openPtys THEN {<<0, ErrClosed>>}
  ELSE IF n = 0 THEN {<<0, NoErr>>}
  ELSE {<<0, ErrEOF>>}
       \cup {<<k, NoErr>> : k \in 1..(IF n < Len(StreamBytes) - stream[fd]
                                        THEN n ELSE Len(StreamBytes) - stream[fd])}

\* read handing on the error of f.Read as it is.
readRawError(b, err) ==
  IF err # NoErr
    THEN [result |-> NilBytes, error |-> err]
    ELSE [result |-> b, error |-> NoErr]

\* read cutting the buffer down to the bytes f.Read delivered.
readTrimmed(b, err) ==
  IF err # NoErr
    THEN [result |-> NilBytes, error |-> ErrTransportFailure]
    ELSE [result |-> [b EXCEPT !.len = Len(b.head)], error |-> NoErr]

\* The transportResult read builds from the buffer and the error of f.Read.
read(b, err) ==
  IF err # NoErr
    THEN [result |-> NilBytes, error |-> ErrTransportFailure]
    ELSE [result |-> b, error |-> NoErr]

WorkerRead(i) ==
  /\ ReadDue(i)
  /\ \E o \in readOutcomes(workers[i].fd, workers[i].n) :
       LET fd == workers[i].fd
           b  == IF o[1] > 0
                   THEN FillBytes(MakeBytes(workers[i].n), stream[fd], o[1])
                   ELSE MakeBytes(workers[i].n)
       IN /\ workers' = [workers EXCEPT ![i].st = "send", ![i].raw = o[2],
                                         ![i].res = read(b, o[2])]
          /\ stream' = IF o[1] > 0 THEN [stream EXCEPT ![fd] = @ + o[1]] ELSE stream
  /\ UNCHANGED <<sysVars, nSpawns, lastSpawn, openPtys, argVars, pc, call, timer,
                 delayed, ret>>

\* The caller of worker i is at its select statement, receiving from c.
Receiving(i) == i = cur /\ pc = "select"

\* sendReady for a channel made without a buffer: a send waits for a receiver.
sendReadyUnbuffered(ch, receiving) == receiving

\* A send on c = make(chan *transportResult, 1) can proceed: c has room.
sendReady(ch, receiving) == Len(ch) < 1

\* c <- r; close(c): the send waits until c, of capacity 1, has room.  After
\* it the goroutine is over; if the caller has returned too, c is unreachable.
WorkerSend(i) ==
  /\ workers[i].st = "send"
  /\ sendReady(workers[i].ch, Receiving(i))
  /\ workers' = IF Returned(i)
                  THEN [workers EXCEPT ![i] = Gone]
                  ELSE [workers EXCEPT ![i].st = "done", ![i].ch = <<workers[i].res>>,
                                       ![i].closed = TRUE]
  /\ UNCHANGED <<sysVars, osVars, argVars, pc, call, timer, delayed, ret>>

Worker == \E i \in 1..Len(workers) :
  WorkerStart(i) \/ WorkerRead(i) \/ WorkerSend(i)

\* ----------------------------------------------------------------- time
\* How long it still takes until a blocked read returns, or until the timer of
\* the call in progress expires.
Pending ==
  {workers[i].left : i \in {j \in 1..Len(workers) : Blocked(j)}}
  \cup (IF TimerArmed THEN {timer.left} ELSE {})

Elapse(left, d) == IF left > d THEN left - d ELSE 0

\* A step of the call in progress (caller, its worker, its timer) can be taken now.
Runnable ==
  /\ pc # "idle"
  /\ \/ pc = "timer"
     \/ TimerDue
     \/ pc = "select" /\ selectCases(workers[cur].ch, timer.fired) # {}
     \/ workers[cur].st \in {"spawned", "send"}
     \/ ReadDue(cur)

\* Time passes, up to the next instant at which something pending is due.
Advance ==
  /\ \E d \in Pending :
       /\ d > 0
       /\ \A u \in Pending : u > 0 => d <= u
       /\ workers' = [i \in 1..Len(workers) |->
                        IF Blocked(i)
                          THEN [workers[i] EXCEPT !.left = Elapse(@, d)]
                          ELSE workers[i]]
       /\ timer' = IF TimerArmed THEN [timer EXCEPT !.left = Elapse(@, d)] ELSE timer
  /\ delayed' = (delayed \/ Runnable)
  /\ UNCHANGED <<sysVars, osVars, argVars, pc, call, ret>>

\* ------------------------------------------------------------------ Next
Next ==
  \/ Open
  \/ OpenNetconf
  \/ Close
  \/ Write
  \/ IsAlive
  \/ Read
  \/ ReadN
  \/ NewTimer
  \/ TimerFire
  \/ Select
  \/ Worker
  \/ Advance

Spec == Init /\ [][Next]_vars

\* ------------------------------------------------- the shared timeouts
\* A holder of the pointers TimeoutSocket / TimeoutTransport stores new values
\* through them.  (The transport reads them when a call starts, in Read, ReadN
\* and buildOpenCmd, so a store made while a call is in flight acts as one made
\* right after it.)
SetTimeouts ==
  /\ pc = "idle"
  /\ \E ts \in UpdSocketTimeouts, tt \in UpdTransportTimeouts :
       /\ <<ts, tt>> # <<BaseTransportArgs.TimeoutSocket, BaseTransportArgs.TimeoutTransport>>
       /\ BaseTransportArgs' = [BaseTransportArgs EXCEPT !.TimeoutSocket = ts,
                                                         !.TimeoutTransport = tt]
  /\ UNCHANGED <<SystemTransportArgs, sysVars, osVars, callVars, ret>>

\* One set of ssh parameters, whose timeouts are then updated.
InitUpd ==
  /\ BaseTransportArgs \in [Host : Hosts, Port : {22}, AuthUsername : {"admin"},
                            TimeoutSocket : {5 * Second},
                            TimeoutTransport : {1500}]
  /\ SystemTransportArgs \in [AuthPrivateKey : {""}, AuthStrictKey : {FALSE},
                              SSHConfigFile : {""}, SSHKnownHostsFile : {""}]
  /\ ExecCmd = ""
  /\ Fresh

NextUpd ==
  \/ SetTimeouts
  \/ Open
  \/ OpenNetconf
  \/ Read
  \/ NewTimer
  \/ TimerFire
  \/ Select
  \/ Worker
  \/ Advance

SpecUpd == InitUpd /\ [][NextUpd]_vars

\* The operations that build, use and keep the argument vector.
NextCmd ==
  \/ Open
  \/ OpenNetconf
  \/ Close

SpecCmd == InitCmd /\ [][NextCmd]_vars

\* =================================================================== claims
Reads == {"Read", "ReadN"}

\* The select statement took the worker's result.
TookWorker == ret.error # ErrTransportTimeout

\* ---- C1 ----
\* C1: every Read/ReadN returns exactly one outcome: either the (payload, error)
\* pair its own worker sent, or the empty payload with ErrTransportTimeout;
\* never a mix of the two.
C1_ExactlyOneOutcome ==
  ret.op \in Reads =>
    \/ /\ ret.worker.st = "done"
       /\ ret.result = ret.worker.result
       /\ ret.error = ret.worker.error
       /\ ret.error # ErrTransportTimeout
    \/ /\ ret.result = MakeBytes(0)
       /\ ret.error = ErrTransportTimeout

\* Both the worker's result and the timer were ready, and the timeout was returned.
C1_Witness ==
  /\ ret.op = "Read"
  /\ ret.worker.st = "done"
  /\ ret.worker.result.head # <<>>
  /\ ret.error = ErrTransportTimeout
  /\ ret.result = MakeBytes(0)

\* ---- C2 ----
\* A returned Read/ReadN whose timeout d is positive and whose stream read took
\* the known, finite time t.
Timed ==
  /\ ret.op \in Reads
  /\ ret.timeout > 0
  /\ ret.worker.dur \notin {Unknown, Never}

\* C2 as claimed: for d > 0 and an operation that completes after time t, the
\* call returns the operation's result if t < d and ErrTransportTimeout if t >= d.
\* (Stated for the calls in which no goroutine was kept waiting, so that what
\* refutes it is the code and not the scheduler.)
C2_Original ==
  (Timed /\ ~ret.delayed) =>
    /\ ret.worker.dur < ret.timeout =>
         TookWorker /\ ret.result = ret.worker.result /\ ret.error = ret.worker.error
    /\ ret.worker.dur >= ret.timeout => ret.error = ErrTransportTimeout

\* C2 (amended): for d > 0 and an operation that completes after time t, when no
\* goroutine of the call was kept waiting while it could run, the call returns
\* the operation's result if t < d and ErrTransportTimeout if t > d (at t = d,
\* and when a goroutine was kept waiting, either outcome can be returned).
C2_Amended ==
  (Timed /\ ~ret.delayed) =>
    /\ ret.worker.dur < ret.timeout =>
         TookWorker /\ ret.result = ret.worker.result /\ ret.error = ret.worker.error
    /\ ret.worker.dur > ret.timeout => ret.error = ErrTransportTimeout

\* A slow operation (t > d) timed out, nothing having been kept waiting.
C2_Witness ==
  /\ Timed
  /\ ~ret.delayed
  /\ ret.worker.dur > ret.timeout
  /\ ret.error = ErrTransportTimeout

\* ---- C3 ----
\* C3: IsAlive is false before the first Open, true right after a successful
\* Open or OpenNetconf, false right after Close whatever Close returned; it
\* reports whether fileObj is non-nil, and it changes nothing.
C3_IsAliveFollowsHandle ==
  /\ [](/\ nSpawns = 0 => ~isAlive(fileObj)
        /\ (ret.op \in {"Open", "OpenNetconf"} /\ ret.error = NoErr) => isAlive(fileObj)
        /\ ret.op = "Close" => ~isAlive(fileObj)
        /\ ret.op = "IsAlive" => ret.alive = (fileObj # 0))
  /\ [][(ret' # ret /\ ret'.op = "IsAlive")
          => UNCHANGED <<sysVars, osVars, argVars, callVars>>]_vars

\* Close failed on a live handle, and the transport is not alive.
C3_Witness ==
  /\ ret.op = "Close"
  /\ ret.error = ErrIO
  /\ nSpawns > 0
  /\ ~isAlive(fileObj)

\* ---- C4 ----
\* C4: whatever error the stream read ends with, end-of-stream included, a Read
\* or ReadN that returns its worker's result returns ErrTransportFailure; the
\* raw error is never returned.
C4_ReadFailureNormalized ==
  ret.op \in Reads =>
    /\ ret.error \in {NoErr, ErrTransportFailure, ErrTransportTimeout}
    /\ (ret.worker.st = "done" /\ ret.worker.raw # NoErr /\ TookWorker)
         => (ret.error = ErrTransportFailure /\ ret.result = NilBytes)

\* The stream of an open session ended, and Read returned ErrTransportFailure.
C4_Witness ==
  /\ ret.op = "Read"
  /\ ret.worker.raw = ErrEOF
  /\ ret.error = ErrTransportFailure

\* ---- C5 ----
\* The whole seconds of the durations used, written out.
secondsText(d) ==
  CASE d = 5 * Second  -> "5"
    [] d = 30 * Second -> "30"
    [] d = 1500        -> "1"
    [] d = 0           -> "0"
    [] d = 0 - 1500    -> "-1"

\* The argument vector as the specification lists it, segment by segment.
expectedArgs ==
  LET b == BaseTransportArgs
      s == SystemTransportArgs
  IN <<b.Host>>
     \o <<"-p", IF b.Port = 22 THEN "22" ELSE "830">>
     \o <<"-o", "ConnectTimeout=" \o secondsText(b.TimeoutSocket)>>
     \o <<"-o", "ServerAliveInterval=" \o secondsText(b.TimeoutTransport)>>
     \o (IF s.AuthPrivateKey = "" THEN <<>> ELSE <<"-i", s.AuthPrivateKey>>)
     \o (IF b.AuthUsername = "" THEN <<>> ELSE <<"-l", b.AuthUsername>>)
     \o (IF s.AuthStrictKey
           THEN <<"-o", "StrictHostKeyChecking=yes">>
                \o (IF s.SSHKnownHostsFile = ""
                      THEN <<>>
                      ELSE <<"-o", "UserKnownHostsFile=" \o s.SSHKnownHostsFile>>)
           ELSE <<"-o", "StrictHostKeyChecking=no", "-o", "UserKnownHostsFile=/dev/null">>)
     \o <<"-F", IF s.SSHConfigFile = "" THEN "/dev/null" ELSE s.SSHConfigFile>>

exampleArgs ==
  /\ BaseTransportArgs = [Host |-> "10.0.0.1", Port |-> 22, AuthUsername |-> "admin",
                          TimeoutSocket |-> 5 * Second,
                          TimeoutTransport |-> 30 * Second]
  /\ SystemTransportArgs = [AuthPrivateKey |-> "", AuthStrictKey |-> FALSE,
                            SSHConfigFile |-> "", SSHKnownHostsFile |-> ""]

exampleVector ==
  <<"10.0.0.1", "-p", "22", "-o", "ConnectTimeout=5", "-o", "ServerAliveInterval=30",
    "-l", "admin", "-o", "StrictHostKeyChecking=no", "-o", "UserKnownHostsFile=/dev/null",
    "-F", "/dev/null">>

\* The first spawn of the instance was an Open: buildOpenCmd has run once, on the
\* empty vector.
BuiltOnce == nSpawns = 1 /\ lastSpawn.sized

\* C5: buildOpenCmd applied to the empty vector yields host, -p port, the two
\* timeout options in whole seconds, -i key if set, -l user if set, the host-key
\* options, -F config or /dev/null, in this order; for the example parameters
\* it is the 15-element vector of the specification.
C5_BuildOpenCmdOrder ==
  BuiltOnce =>
    /\ OpenCmd = expectedArgs
    /\ lastSpawn.argv = expectedArgs
    /\ exampleArgs => (OpenCmd = exampleVector /\ Len(OpenCmd) = 15)

C5_Witness == BuiltOnce /\ exampleArgs /\ OpenCmd = exampleVector

\* ---- C6 ----
\* v holds the elements of w from position i on.
HasAt(v, i, w) == i + Len(w) - 1 <= Len(v) /\ \A j \in 1..Len(w) : v[i + j - 1] = w[j]

Has(v, w) == \E i \in 1..Len(v) : HasAt(v, i, w)

Contains(v, x) == \E i \in 1..Len(v) : v[i] = x

NetconfSpawn == nSpawns > 0 /\ ~lastSpawn.sized

\* C7: the vector OpenNetconf spawns with ends with -tt, -s, netconf, and these
\* tokens occur nowhere else in it.
C7_NetconfTokensLastOnly ==
  NetconfSpawn =>
    LET v == lastSpawn.argv
    IN /\ Len(v) >= 3
       /\ HasAt(v, Len(v) - 2, netconfArgs)
       /\ \A i \in 1..(Len(v) - 3) : v[i] \notin {"-tt", "-s", "netconf"}

\* ---- C8 ----
\* C8: after OpenNetconf the vector is what buildOpenCmd yields for the current
\* parameters from an empty vector, followed by the netconf tokens; nothing of
\* an earlier vector remains.
C8_NetconfRebuilds ==
  NetconfSpawn =>
    /\ OpenCmd = buildOpenCmd(<<>>, BaseTransportArgs, SystemTransportArgs) \o netconfArgs
    /\ lastSpawn.argv = OpenCmd

\* ---- C9 ----
\* C9: a Read/ReadN run with a zero or negative timeout returns
\* ErrTransportTimeout, also when the operation completes at once.
C9_NonPositiveTimesOut ==
  (ret.op \in Reads /\ ret.timeout <= 0) => ret.error = ErrTransportTimeout

\* ---- C10 ----
\* C10: no process is leaked: every spawned pty that has not been closed is the
\* one t.fileObj refers to.
C10_NoLeakedProcess == \A p \in openPtys : p = fileObj

\* ---- C11 ----
\* The operations that return the error of the os / pty layer.
PassThrough == {"Open", "OpenNetconf", "Close", "Write"}

\* C11: Open, OpenNetconf, Close and Write return the error of the spawn, close
\* or write as it is, never ErrTransportFailure or ErrTransportTimeout in its
\* place; and a spawn that failed leaves t.fileObj as it was before the call.
C11_FailuresPassedUnchanged ==
  /\ [](ret.op \in PassThrough =>
          /\ ret.error = ret.raw
          /\ ret.error \notin {ErrTransportFailure, ErrTransportTimeout})
  /\ [][(nSpawns' = nSpawns + 1 /\ ret'.error # NoErr) => fileObj' = fileObj]_vars

\* A spawn failed on an open transport: the error is the spawn's, the handle is
\* still the earlier session's.
C11_Witness ==
  /\ ret.op \in {"Open", "OpenNetconf"}
  /\ ret.error = ErrSpawn
  /\ ~lastSpawn.ok
  /\ isAlive(fileObj)
  /\ fileObj < nSpawns

\* ---- C12 ----
\* C12: when the host-key check turns the remote identity down, Open/OpenNetconf
\* does not leave the transport alive for that session, and returns
\* ErrKeyVerificationFailed.
C12_KeyRejectionPreventsSession ==
  (ret.op \in {"Open", "OpenNetconf"} /\ lastSpawn.rejected) =>
    /\ ~isAlive(fileObj)
    /\ ret.error = ErrKeyVerificationFailed

\* ---- C13 ----
\* C13: the Closed state that follows Open is terminal: after a Close of an
\* instance that was open (the close was not refused for a nil handle), no
\* operation makes the instance alive again; stated for the step that follows
\* the Close.
C13_ClosedIsTerminal ==
  [][(ret.op = "Close" /\ ret.raw # ErrInvalid) => ~isAlive(fileObj')]_vars

\* ---- C14 ----
\* C14: every step in which t.fileObj goes from a live session to nil or to
\* another session is a Close.
C14_OnlyCloseInvalidates ==
  [][(isAlive(fileObj) /\ fileObj' # fileObj) => ret'.op = "Close"]_vars

\* ---- C15 ----
\* The timeout options of the vector v.
connectOptions(v) ==
  {v[i] : i \in {j \in 1..Len(v) :
     v[j] \in {"ConnectTimeout=" \o Itoa(WholeSeconds(d)) :
                 d \in SocketTimeouts \cup UpdSocketTimeouts}}}

aliveOptions(v) ==
  {v[i] : i \in {j \in 1..Len(v) :
     v[j] \in {"ServerAliveInterval=" \o Itoa(WholeSeconds(d)) :
                 d \in TransportTimeouts \cup UpdTransportTimeouts}}}

\* C15: a Read/ReadN issued after an update of the shared timeouts runs with
\* the idle timeout as updated, and a process spawned after an update is given
\* the ConnectTimeout and ServerAliveInterval of the timeouts as updated and of
\* no earlier values.
C15_UpdatesObserved ==
  /\ [][(pc = "idle" /\ pc' = "timer")
          => call'.timeout = BaseTransportArgs.TimeoutTransport]_vars
  /\ [][nSpawns' = nSpawns + 1 =>
          /\ connectOptions(lastSpawn'.argv) =
               {"ConnectTimeout=" \o Itoa(WholeSeconds(BaseTransportArgs.TimeoutSocket))}
          /\ aliveOptions(lastSpawn'.argv) =
               {"ServerAliveInterval="
                  \o Itoa(WholeSeconds(BaseTransportArgs.TimeoutTransport))}]_vars

\* ---- C16 ----
\* C16: Read, ReadN and Write on a transport whose handle is nil return an
\* error and no data, and no step other than a spawn sets a nil handle or
\* changes the argument vector.
C16_NilHandleOpsFail ==
  /\ []((ret.op \in Reads \cup {"Write"} /\ ~isAlive(fileObj)) =>
          /\ ret.error # NoErr
          /\ ret.result.head = <<>>)
  /\ [][(~isAlive(fileObj) /\ nSpawns' = nSpawns)
          => (~isAlive(fileObj') /\ OpenCmd' = OpenCmd)]_vars

\* A Read after Close: the stream read was refused for the nil handle, and the
\* call returned ErrTransportFailure.
C16_Witness ==
  /\ ret.op = "Read"
  /\ nSpawns > 0
  /\ OpenCmd # <<>>
  /\ ~isAlive(fileObj)
  /\ ret.worker.raw = ErrInvalid
  /\ ret.error = ErrTransportFailure

\* ---- C17 ----
\* C17: OpenNetconf invokes the configured program: ExecCmd when it is set, ssh
\* when it is not.
C17_NetconfUsesExecCmd ==
  NetconfSpawn => lastSpawn.prog = (IF ExecCmd = "" THEN "ssh" ELSE ExecCmd)

\* ---- C18 ----
\* C18: a worker whose operation has returned can always send: the send on c is
\* enabled in every state in which the worker is at it, whether or not its
\* caller has returned, and after it the worker is over; a worker that is not
\* over and can take no step now or later is inside an operation that never
\* returns.
C18_SendNeverBlocks ==
  /\ [](\A i \in 1..Len(workers) :
          /\ workers[i].st = "send" => ENABLED WorkerSend(i)
          /\ workers[i].st = "spawned" => ENABLED WorkerStart(i)
          /\ workers[i].st = "reading" =>
               \/ workers[i].left = Never
               \/ workers[i].left > 0
               \/ ENABLED WorkerRead(i))
  /\ [][\A i \in 1..Len(workers) :
          (workers[i].st = "send" /\ workers'[i] # workers[i])
            => workers'[i].st \in {"done", "gone"}]_vars

\* The call timed out with its worker still at work, and the worker has since
\* sent its result and ended.
C18_Witness ==
  /\ pc = "idle"
  /\ ret.op \in Reads
  /\ ret.error = ErrTransportTimeout
  /\ ret.worker.st \in {"spawned", "reading", "send"}
  /\ workers[Len(workers)] = Gone

\* ---- C19 ----
\* C19: what a Read/ReadN returns from a worker is the result of the worker of
\* that same call, received from that call's own channel; and the send of a
\* worker whose call has returned reaches no caller and no other call's channel.
C19_OwnWorkerOnly ==
  /\ []((ret.op \in Reads /\ TookWorker) =>
          /\ ret.worker.st = "done"
          /\ ret.result = ret.worker.result
          /\ workers[Len(workers)] = Gone)
  /\ [][\A i \in 1..Len(workers) :
          ((i < Len(workers) \/ pc = "idle")
             /\ workers[i].st = "send" /\ workers'[i] # workers[i])
            => /\ workers'[i] = Gone
               /\ ret' = ret
               /\ \A j \in 1..Len(workers) : j # i => workers'[j] = workers[j]]_vars

\* The second of two reads has returned the end of the stream from its own
\* worker, while the worker of the first, which timed out, holds the byte it
\* took from the stream.
C19_Witness ==
  /\ Len(workers) = 2
  /\ workers[1].st = "send"
  /\ workers[1].res.result.head = StreamBytes
  /\ ret.op \in Reads
  /\ ret.worker.raw = ErrEOF
  /\ ret.error = ErrTransportFailure

\* ---- C20 ----
\* C20: a Read/ReadN that returns no error returns a payload of the length
\* asked for (ReadSize for Read), whatever number k of bytes the stream read
\* delivered: its first k bytes are bytes of the stream, the bytes after them
\* are zero.
C20_PayloadLength ==
  (ret.op \in Reads /\ ret.error = NoErr) =>
    LET b == ret.result
        k == Len(b.head)
    IN /\ ~b.isnil
       /\ b.len = ret.worker.n
       /\ ret.op = "Read" => b.len = ReadSize
       /\ ret.op = "ReadN" => b.len \in ReadNSizes
       /\ k <= b.len
       /\ \E pos \in 0..Len(StreamBytes) :
            /\ pos + k <= Len(StreamBytes)
            /\ \A j \in 1..k : b.head[j] = StreamBytes[pos + j]
       /\ k < b.len => (ByteAt(b, k + 1) = 0 /\ ByteAt(b, b.len) = 0)

\* ReadN(2) was delivered one byte and returned two.
C20_Witness ==
  /\ ret.op = "ReadN"
  /\ ret.error = NoErr
  /\ ret.result.len = 2
  /\ ret.result.head = StreamBytes

====
